---- MODULE Spec2Model ----
(***************************************************************************)
(* A model of todo-rs (src/src/main.rs, src/src/ctrlc.rs): the two task    *)
(* lists with their cursors, the immediate-mode layout stack, the text     *)
(* edit widget, the key dispatch of the main loop and the interrupt flag.  *)
(*                                                                         *)
(* A String is modelled as the sequence of its UTF-8 bytes, since the code *)
(* indexes strings by byte offset (String::len, insert, remove).           *)
(* An Option<i32> is modelled as a sequence: <<>> is None, <<k>> Some(k).  *)
(***************************************************************************)
EXTENDS Integers, Sequences, FiniteSets, TLC

VARIABLES
    todos,          \* Vec<String>
    todo_curr,      \* usize
    dones,          \* Vec<String>
    done_curr,      \* usize
    notification,   \* String, as the sequence of the messages pushed to it
    quit,           \* bool
    panel,          \* Status
    editing,        \* bool
    editing_cursor, \* usize
    layouts,        \* Ui.layouts
    key_current,    \* Option<i32>
    x,              \* screen width of the current iteration (getmaxyx)
    CTRLC,          \* the AtomicBool of ctrlc.rs
    written,        \* Some(lines) once save_state has written the file, else None
    saves,          \* how many times save_state has been called
    panic,          \* "" while the process runs, else the reason it aborted
    pc              \* position of the main thread

vars == <<todos, todo_curr, dones, done_curr, notification, quit, panel,
          editing, editing_cursor, layouts, key_current, x, CTRLC, written,
          saves, panic, pc>>

----------------------------------------------------------------------------
(* Bounds of the model *)

\* most items a loaded file holds
MaxItems == 2
\* most bytes the user types an item up to
MaxLen == 2
\* deepest layout stack explored by the Ui call-sequence specification
MaxDepth == 2
\* widest label used by the Ui call-sequence specification
MaxWidth == 1

----------------------------------------------------------------------------
(* Key codes *)

KEY_LEFT == 260
KEY_RIGHT == 261
KEY_BACKSPACE == 263
KEY_DC == 330
KEY_F2 == 266
CH_NL == 10
CH_TAB == 9
CH_K == 75
CH_J == 74
CH_k == 107
CH_j == 106
CH_g == 103
CH_G == 71
CH_d == 100
CH_r == 114
CH_q == 113
\* "é" is the two bytes 0xC3 0xA9
UTF8_LEAD == 195
UTF8_CONT == 169

None == <<>>
Some(k) == <<k>>

\* `key as u8`: an i32 truncated to its low 8 bits
as_u8(key) == key % 256

\* the key codes getch() is taken to return
Keys == {CH_NL, CH_TAB, CH_K, CH_J, CH_k, CH_j, CH_g, CH_G, CH_d, CH_r, CH_q,
         KEY_LEFT, KEY_RIGHT, KEY_BACKSPACE, KEY_DC, KEY_F2}

IsPrintable(key) == key >= 32 /\ key <= 126

\* the printable keys the user types while an item is being edited
TypedKeys == {CH_q, CH_j}

\* the screen widths getmaxyx() is taken to report
Widths == {5}

\* the item texts of the loaded file
InitTexts == {<<CH_q>>, <<UTF8_LEAD, UTF8_CONT>>}

----------------------------------------------------------------------------
(* std::string::String, by bytes *)

IsContinuation(b) == b >= 128 /\ b < 192

is_char_boundary(s, i) ==
    IF i = 0 THEN TRUE
    ELSE IF i >= Len(s) THEN i = Len(s)
    ELSE ~IsContinuation(s[i + 1])

len_utf8(b) == IF b < 128 THEN 1 ELSE IF b < 224 THEN 2 ELSE IF b < 240 THEN 3 ELSE 4

\* String::insert(idx, ch) for a one-byte ch: panics off a char boundary
string_insert(s, idx, ch) ==
    IF ~is_char_boundary(s, idx)
    THEN [ok |-> FALSE, s |-> s]
    ELSE [ok |-> TRUE, s |-> SubSeq(s, 1, idx) \o <<ch>> \o SubSeq(s, idx + 1, Len(s))]

\* String::remove that removes the first char whatever idx is
string_remove_first(s, idx) ==
    IF idx >= Len(s) \/ ~is_char_boundary(s, idx)
    THEN [ok |-> FALSE, s |-> s]
    ELSE [ok |-> TRUE, s |-> SubSeq(s, len_utf8(s[1]) + 1, Len(s))]

\* String::remove(idx): removes the whole char that starts at byte idx; panics
\* off a char boundary or at the end of the string
string_remove(s, idx) ==
    IF idx >= Len(s) \/ ~is_char_boundary(s, idx)
    THEN [ok |-> FALSE, s |-> s]
    ELSE [ok |-> TRUE,
          s |-> SubSeq(s, 1, idx) \o SubSeq(s, idx + len_utf8(s[idx + 1]) + 1, Len(s))]

----------------------------------------------------------------------------
(* Vec2 and Layout *)

Vec2(px, py) == [x |-> px, y |-> py]

Vec2Add(a, b) == Vec2(a.x + b.x, a.y + b.y)

Vec2Mul(a, b) == Vec2(a.x * b.x, a.y * b.y)

Max(a, b) == IF a >= b THEN a ELSE b

Layout(kind, pos) == [kind |-> kind, pos |-> pos, size |-> Vec2(0, 0)]

available_pos(l) ==
    IF l.kind = "Horz"
    THEN Vec2Add(l.pos, Vec2Mul(l.size, Vec2(1, 0)))
    ELSE Vec2Add(l.pos, Vec2Mul(l.size, Vec2(0, 1)))

\* add_widget that stacks the widget downwards whatever the kind
add_widget_vert_only(l, size) ==
    [l EXCEPT !.size = Vec2(Max(l.size.x, size.x), l.size.y + size.y)]

add_widget(l, size) ==
    IF l.kind = "Horz"
    THEN [l EXCEPT !.size = Vec2(l.size.x + size.x, Max(l.size.y, size.y))]
    ELSE [l EXCEPT !.size = Vec2(Max(l.size.x, size.x), l.size.y + size.y)]

(* The Ui calls.  Each yields the new stack and whether the call panicked. *)

Last(s) == s[Len(s)]

Front(s) == SubSeq(s, 1, Len(s) - 1)

UiOk(ls) == [layouts |-> ls, panic |-> ""]

UiPanic(ls) == [layouts |-> ls, panic |-> "InvalidState"]

ui_begin(ls, pos, kind) ==
    IF ls # <<>> THEN UiPanic(ls)
    ELSE UiOk(Append(ls, Layout(kind, pos)))

ui_begin_layout(ls, kind) ==
    IF ls = <<>> THEN UiPanic(ls)
    ELSE UiOk(Append(ls, Layout(kind, available_pos(Last(ls)))))

ui_end_layout(ls) ==
    IF ls = <<>> THEN UiPanic(ls)
    ELSE IF Len(ls) = 1 THEN UiPanic(Front(ls))
    ELSE LET layout == Last(ls)
             rest == Front(ls)
         IN  UiOk([rest EXCEPT ![Len(rest)] = add_widget(@, layout.size)])

ui_label_fixed_width(ls, width) ==
    IF ls = <<>> THEN UiPanic(ls)
    ELSE UiOk([ls EXCEPT ![Len(ls)] = add_widget(@, Vec2(width, 1))])

ui_end(ls) ==
    IF ls = <<>> THEN UiPanic(ls)
    ELSE UiOk(Front(ls))

\* r, then the call Op on the stack r left, unless r panicked
Then(r, Op(_)) == IF r.panic # "" THEN r ELSE Op(r.layouts)

----------------------------------------------------------------------------
(* Ui::edit_field *)

EditResult(ls, buffer, cursor, key, why) ==
    [layouts |-> ls, buffer |-> buffer, cursor |-> cursor, key |-> key, panic |-> why]

\* the match on the key, lines 150-181, on the clamped cursor
edit_key(buffer, cursor, key) ==
    IF IsPrintable(key) THEN
        IF cursor >= Len(buffer)
        THEN [ok |-> TRUE, buffer |-> Append(buffer, as_u8(key)), cursor |-> cursor + 1, key |-> None]
        ELSE LET r == string_insert(buffer, cursor, as_u8(key))
             IN  [ok |-> r.ok, buffer |-> r.s, cursor |-> IF r.ok THEN cursor + 1 ELSE cursor,
                  key |-> None]
    ELSE IF key = KEY_LEFT THEN
        [ok |-> TRUE, buffer |-> buffer, cursor |-> IF cursor > 0 THEN cursor - 1 ELSE cursor,
         key |-> None]
    ELSE IF key = KEY_RIGHT THEN
        [ok |-> TRUE, buffer |-> buffer,
         cursor |-> IF cursor < Len(buffer) THEN cursor + 1 ELSE cursor, key |-> None]
    ELSE IF key = KEY_BACKSPACE THEN
        IF cursor > 0 THEN
            IF cursor - 1 < Len(buffer)
            THEN LET r == string_remove(buffer, cursor - 1)
                 IN  [ok |-> r.ok, buffer |-> r.s, cursor |-> cursor - 1, key |-> None]
            ELSE [ok |-> TRUE, buffer |-> buffer, cursor |-> cursor - 1, key |-> None]
        ELSE [ok |-> TRUE, buffer |-> buffer, cursor |-> cursor, key |-> None]
    ELSE IF key = KEY_DC THEN
        IF cursor < Len(buffer)
        THEN LET r == string_remove(buffer, cursor)
             IN  [ok |-> r.ok, buffer |-> r.s, cursor |-> cursor, key |-> None]
        ELSE [ok |-> TRUE, buffer |-> buffer, cursor |-> cursor, key |-> None]
    ELSE [ok |-> TRUE, buffer |-> buffer, cursor |-> cursor, key |-> Some(key)]

edit_field(ls, buffer, cursor, key_opt, width) ==
    IF ls = <<>> THEN EditResult(ls, buffer, cursor, key_opt, "InvalidState")
    ELSE LET clamped == IF cursor > Len(buffer) THEN Len(buffer) ELSE cursor
             r == IF key_opt = None
                  THEN [ok |-> TRUE, buffer |-> buffer, cursor |-> clamped, key |-> None]
                  ELSE edit_key(buffer, clamped, key_opt[1])
         IN  IF ~r.ok
             THEN EditResult(ls, r.buffer, r.cursor, None, "CharBoundary")
             ELSE EditResult(ui_label_fixed_width(ls, width).layouts,
                             r.buffer, r.cursor, r.key, "")

----------------------------------------------------------------------------
(* The list functions.  Each yields the new list and cursor. *)

ListResult(list, curr) == [list |-> list, curr |-> curr]

\* slice::swap on 0-based indices
Swap(list, i, j) == [list EXCEPT ![i + 1] = list[j + 1], ![j + 1] = list[i + 1]]

\* Vec::remove on a 0-based index
VecRemove(list, i) == SubSeq(list, 1, i) \o SubSeq(list, i + 2, Len(list))

\* list_drag_up that swaps the items and leaves the cursor behind
list_drag_up_cursor_stays(list, curr) ==
    IF curr > 0 THEN ListResult(Swap(list, curr, curr - 1), curr)
    ELSE ListResult(list, curr)

list_drag_up(list, curr) ==
    IF curr > 0 THEN ListResult(Swap(list, curr, curr - 1), curr - 1)
    ELSE ListResult(list, curr)

list_drag_down(list, curr) ==
    IF curr + 1 < Len(list) THEN ListResult(Swap(list, curr, curr + 1), curr + 1)
    ELSE ListResult(list, curr)

list_up(list, curr) ==
    IF curr > 0 THEN ListResult(list, curr - 1) ELSE ListResult(list, curr)


\* list_down with the bound test off by one
list_down_off_by_one(list, curr) ==
    IF curr < Len(list) THEN ListResult(list, curr + 1) ELSE ListResult(list, curr)

list_down(list, curr) ==
    IF curr + 1 < Len(list) THEN ListResult(list, curr + 1) ELSE ListResult(list, curr)

list_first(list, curr) ==
    IF curr > 0 THEN ListResult(list, 0) ELSE ListResult(list, curr)

list_last(list, curr) ==
    IF list # <<>> THEN ListResult(list, Len(list) - 1) ELSE ListResult(list, curr)


\* list_transfer that inserts at the head of the destination
list_transfer_prepend(list_dst, list_src, list_src_curr) ==
    IF list_src_curr < Len(list_src)
    THEN LET src == VecRemove(list_src, list_src_curr)
         IN  [dst |-> <<list_src[list_src_curr + 1]>> \o list_dst,
              src |-> src,
              curr |-> IF list_src_curr >= Len(src) /\ src # <<>>
                       THEN Len(src) - 1 ELSE list_src_curr]
    ELSE [dst |-> list_dst, src |-> list_src, curr |-> list_src_curr]

\* list_transfer that leaves the moved item in the source as well
list_transfer_copy(list_dst, list_src, list_src_curr) ==
    IF list_src_curr < Len(list_src)
    THEN [dst |-> Append(list_dst, list_src[list_src_curr + 1]),
          src |-> list_src,
          curr |-> list_src_curr]
    ELSE [dst |-> list_dst, src |-> list_src, curr |-> list_src_curr]

\* list_transfer that replaces the destination by the moved item
list_transfer_overwrite(list_dst, list_src, list_src_curr) ==
    IF list_src_curr < Len(list_src)
    THEN LET src == VecRemove(list_src, list_src_curr)
         IN  [dst |-> <<list_src[list_src_curr + 1]>>,
              src |-> src,
              curr |-> IF list_src_curr >= Len(src) /\ src # <<>>
                       THEN Len(src) - 1 ELSE list_src_curr]
    ELSE [dst |-> list_dst, src |-> list_src, curr |-> list_src_curr]

list_transfer(list_dst, list_src, list_src_curr) ==
    IF list_src_curr < Len(list_src)
    THEN LET src == VecRemove(list_src, list_src_curr)
         IN  [dst |-> Append(list_dst, list_src[list_src_curr + 1]),
              src |-> src,
              curr |-> IF list_src_curr >= Len(src) /\ src # <<>>
                       THEN Len(src) - 1 ELSE list_src_curr]
    ELSE [dst |-> list_dst, src |-> list_src, curr |-> list_src_curr]


\* list_delete that removes the item before the cursor
list_delete_previous(list, list_curr) ==
    IF list_curr < Len(list)
    THEN LET l == VecRemove(list, IF list_curr > 0 THEN list_curr - 1 ELSE 0)
         IN  ListResult(l, IF list_curr >= Len(l) /\ l # <<>> THEN Len(l) - 1 ELSE list_curr)
    ELSE ListResult(list, list_curr)

list_delete(list, list_curr) ==
    IF list_curr < Len(list)
    THEN LET l == VecRemove(list, list_curr)
         IN  ListResult(l, IF list_curr >= Len(l) /\ l # <<>> THEN Len(l) - 1 ELSE list_curr)
    ELSE ListResult(list, list_curr)

----------------------------------------------------------------------------
(* Status *)

toggle(status) == IF status = "Todo" THEN "Done" ELSE "Todo"

(* The file codec *)

TODO_PREFIX == <<84, 79, 68, 79, 58, 32>>
DONE_PREFIX == <<68, 79, 78, 69, 58, 32>>

\* str::strip_prefix: <<rest>> when line starts with prefix, else None
strip_prefix(line, prefix) ==
    IF Len(line) >= Len(prefix) /\ SubSeq(line, 1, Len(prefix)) = prefix
    THEN <<SubSeq(line, Len(prefix) + 1, Len(line))>>
    ELSE None

parse_item(line) ==
    LET todo_item == strip_prefix(line, TODO_PREFIX)
        done_item == strip_prefix(line, DONE_PREFIX)
    IN  IF todo_item # None THEN <<[status |-> "Todo", title |-> todo_item[1]]>>
        ELSE IF done_item # None THEN <<[status |-> "Done", title |-> done_item[1]]>>
        ELSE None

RECURSIVE load_lines(_, _, _, _)
load_lines(lines, index, td, dn) ==
    IF index > Len(lines) THEN [ok |-> TRUE, todos |-> td, dones |-> dn]
    ELSE LET item == parse_item(lines[index])
         IN  IF item = None THEN [ok |-> FALSE, todos |-> td, dones |-> dn]
             ELSE IF item[1].status = "Todo"
                  THEN load_lines(lines, index + 1, Append(td, item[1].title), dn)
                  ELSE load_lines(lines, index + 1, td, Append(dn, item[1].title))

load_state(td, dn, lines) == load_lines(lines, 1, td, dn)

save_state(td, dn) ==
    [i \in 1..Len(td) |-> TODO_PREFIX \o td[i]] \o [i \in 1..Len(dn) |-> DONE_PREFIX \o dn[i]]

(* ctrlc *)


\* a poll that clears the flag but reports the value it stored
poll_lossy(flag) == [ret |-> FALSE, flag |-> FALSE]

\* CTRLC.swap(false): the value read and the value left
poll(flag) == [ret |-> flag, flag |-> FALSE]

----------------------------------------------------------------------------
(* The item loop of the active panel, lines 402-421 and 456-475 *)

LoopState(list, curr, ed, ed_cursor, key, ls, why) ==
    [list |-> list, curr |-> curr, editing |-> ed, editing_cursor |-> ed_cursor,
     key |-> key, layouts |-> ls, panic |-> why]


\* item_body that leaves a key the edit widget did not consume, and that is
\* not the commit key, pending for the later handlers
item_body_redispatch(st, index, width) ==
    IF index = st.curr THEN
        IF st.editing THEN
            LET r == edit_field(st.layouts, st.list[index + 1], st.editing_cursor,
                                st.key, width)
                commit == r.key # None /\ as_u8(r.key[1]) = CH_NL
            IN  IF r.panic # "" THEN [st EXCEPT !.panic = r.panic]
                ELSE [st EXCEPT !.list[index + 1] = r.buffer,
                                !.editing_cursor = r.cursor,
                                !.layouts = r.layouts,
                                !.key = IF commit THEN None ELSE r.key,
                                !.editing = IF commit THEN FALSE ELSE @]
        ELSE
            LET r == ui_label_fixed_width(st.layouts, width)
            IN  IF r.panic # "" THEN [st EXCEPT !.panic = r.panic]
                ELSE IF st.key # None /\ as_u8(st.key[1]) = CH_r
                THEN [st EXCEPT !.layouts = r.layouts,
                                !.editing = TRUE,
                                !.editing_cursor = Len(st.list[index + 1]),
                                !.key = None]
                ELSE [st EXCEPT !.layouts = r.layouts]
    ELSE
        LET r == ui_label_fixed_width(st.layouts, width)
        IN  [st EXCEPT !.layouts = r.layouts, !.panic = r.panic]

\* the loop body for the item at 0-based index
item_body(st, index, width) ==
    IF index = st.curr THEN
        IF st.editing THEN
            LET r == edit_field(st.layouts, st.list[index + 1], st.editing_cursor,
                                st.key, width)
            IN  IF r.panic # "" THEN [st EXCEPT !.panic = r.panic]
                ELSE [st EXCEPT !.list[index + 1] = r.buffer,
                                !.editing_cursor = r.cursor,
                                !.layouts = r.layouts,
                                \* key_current.take(): the key is gone either way
                                !.key = None,
                                !.editing = IF r.key # None /\ as_u8(r.key[1]) = CH_NL
                                            THEN FALSE ELSE @]
        ELSE
            LET r == ui_label_fixed_width(st.layouts, width)
            IN  IF r.panic # "" THEN [st EXCEPT !.panic = r.panic]
                ELSE IF st.key # None /\ as_u8(st.key[1]) = CH_r
                THEN [st EXCEPT !.layouts = r.layouts,
                                !.editing = TRUE,
                                !.editing_cursor = Len(st.list[index + 1]),
                                !.key = None]
                ELSE [st EXCEPT !.layouts = r.layouts]
    ELSE
        LET r == ui_label_fixed_width(st.layouts, width)
        IN  [st EXCEPT !.layouts = r.layouts, !.panic = r.panic]

\* item_loop whose handlers read the pending key without taking it
RECURSIVE item_loop_keeps_key(_, _, _)
item_loop_keeps_key(st, index, width) ==
    IF index >= Len(st.list) \/ st.panic # "" THEN st
    ELSE item_loop_keeps_key([item_body(st, index, width) EXCEPT !.key = st.key],
                             index + 1, width)

RECURSIVE item_loop(_, _, _)
item_loop(st, index, width) ==
    IF index >= Len(st.list) \/ st.panic # "" THEN st
    ELSE item_loop(item_body(st, index, width), index + 1, width)

\* the labels of the inactive panel, lines 444-447 and 502-505
RECURSIVE label_loop(_, _, _)
label_loop(r, n, width) ==
    IF n = 0 \/ r.panic # "" THEN r
    ELSE label_loop(ui_label_fixed_width(r.layouts, width), n - 1, width)

\* the command match of the todo panel, lines 423-442
todo_command(key, td, td_curr, dn, pnl, note) ==
    LET c == as_u8(key)
        same == [todos |-> td, todo_curr |-> td_curr, dones |-> dn, panel |-> pnl,
                 notification |-> note, key |-> None]
        moved(r) == [same EXCEPT !.todos = r.list, !.todo_curr = r.curr]
    IN  IF c = CH_K THEN moved(list_drag_up(td, td_curr))
        ELSE IF c = CH_J THEN moved(list_drag_down(td, td_curr))
        ELSE IF c = CH_k THEN moved(list_up(td, td_curr))
        ELSE IF c = CH_j THEN moved(list_down(td, td_curr))
        ELSE IF c = CH_g THEN moved(list_first(td, td_curr))
        ELSE IF c = CH_G THEN moved(list_last(td, td_curr))
        ELSE IF c = CH_NL THEN
            LET r == list_transfer(dn, td, td_curr)
            IN  [same EXCEPT !.todos = r.src, !.todo_curr = r.curr, !.dones = r.dst,
                             !.notification = Append(note, "DONE!")]
        ELSE IF c = CH_TAB THEN [same EXCEPT !.panel = toggle(pnl)]
        ELSE [same EXCEPT !.key = Some(key)]

\* the command match of the done panel, lines 477-500
done_command(key, dn, dn_curr, td, pnl, note) ==
    LET c == as_u8(key)
        same == [dones |-> dn, done_curr |-> dn_curr, todos |-> td, panel |-> pnl,
                 notification |-> note, key |-> None]
        moved(r) == [same EXCEPT !.dones = r.list, !.done_curr = r.curr]
    IN  IF c = CH_K THEN moved(list_drag_up(dn, dn_curr))
        ELSE IF c = CH_J THEN moved(list_drag_down(dn, dn_curr))
        ELSE IF c = CH_k THEN moved(list_up(dn, dn_curr))
        ELSE IF c = CH_j THEN moved(list_down(dn, dn_curr))
        ELSE IF c = CH_g THEN moved(list_first(dn, dn_curr))
        ELSE IF c = CH_G THEN moved(list_last(dn, dn_curr))
        ELSE IF c = CH_d THEN
            LET r == list_delete(dn, dn_curr)
            IN  [same EXCEPT !.dones = r.list, !.done_curr = r.curr,
                             !.notification = Append(note, "Into The Abyss!")]
        ELSE IF c = CH_NL THEN
            LET r == list_transfer(td, dn, dn_curr)
            IN  [same EXCEPT !.dones = r.src, !.done_curr = r.curr, !.todos = r.dst,
                             !.notification = Append(note, "No, not done yet...")]
        ELSE IF c = CH_TAB THEN [same EXCEPT !.panel = toggle(pnl)]
        ELSE [same EXCEPT !.key = Some(key)]

----------------------------------------------------------------------------
(* The main loop, lines 330-531 *)

BoundedSeq(S, n) == UNION {[1..k -> S] : k \in 0..n}

\* the well-formed files of at most MaxItems lines
Files == BoundedSeq({TODO_PREFIX \o t : t \in InitTexts}
                        \cup {DONE_PREFIX \o t : t \in InitTexts}, MaxItems)

\* the state main() is in when it reaches the loop, having loaded file f
InitLoaded(f) ==
    LET r == load_state(<<>>, <<>>, f)
    IN  /\ r.ok
        /\ written = None
        /\ todos = r.todos
        /\ todo_curr = 0
        /\ dones = r.dones
        /\ done_curr = 0
        /\ notification = <<"Loaded file">>
        /\ quit = FALSE
        /\ panel = "Todo"
        /\ editing = FALSE
        /\ editing_cursor = 0
        /\ layouts = <<>>
        /\ key_current = None
        /\ x = 0
        /\ CTRLC = FALSE
        /\ saves = 0
        /\ panic = ""
        /\ pc = "cond"

Init == \E f \in Files : InitLoaded(f)

listVars == <<todos, todo_curr, dones, done_curr>>
modeVars == <<panel, editing, editing_cursor>>
envVars == <<CTRLC, written, saves>>

\* the process aborts: a failed assert!/expect or a panic inside String
Abort(why) ==
    /\ pc' = "aborted"
    /\ panic' = why
    /\ UNCHANGED <<listVars, modeVars, envVars, notification, quit, layouts,
                   key_current, x>>

\* a step that only makes Ui calls, with result r
UiStep(r, next) ==
    IF r.panic # "" THEN Abort(r.panic)
    ELSE /\ layouts' = r.layouts
         /\ pc' = next
         /\ UNCHANGED <<listVars, modeVars, envVars, notification, quit,
                        key_current, x, panic>>

\* while !quit && !ctrlc::poll(), line 383
Cond ==
    /\ pc = "cond"
    /\ IF quit
       THEN /\ pc' = "save"
            /\ CTRLC' = CTRLC
       ELSE LET r == poll(CTRLC)
            IN  /\ CTRLC' = r.flag
                /\ pc' = IF r.ret THEN "save" ELSE "begin"
    /\ UNCHANGED <<listVars, modeVars, written, saves, notification, quit, layouts,
                   key_current, x, panic>>

\* the calls from ui.begin to the title of the todo column, lines 390-400/444
frame_head(ls, w) ==
    Then(Then(Then(Then(Then(ui_begin(ls, Vec2(0, 0), "Vert"),
                             LAMBDA l : ui_label_fixed_width(l, w)),
                        LAMBDA l : ui_label_fixed_width(l, w)),
                   LAMBDA l : ui_begin_layout(l, "Horz")),
              LAMBDA l : ui_begin_layout(l, "Vert")),
         LAMBDA l : ui_label_fixed_width(l, w \div 2))


\* column_break without the end_layout of the todo column
column_break_unbalanced(ls, w) ==
    Then(ui_begin_layout(ls, "Vert"),
         LAMBDA l : ui_label_fixed_width(l, w \div 2))

\* end of the todo column, start of the done column and its title, lines 450-455/502
column_break(ls, w) ==
    Then(Then(ui_end_layout(ls),
              LAMBDA l : ui_begin_layout(l, "Vert")),
         LAMBDA l : ui_label_fixed_width(l, w \div 2))

\* the frame up to the end of the todo item loop when the todo panel is
\* active, lines 384-421
TodoItems ==
    /\ pc = "begin"
    /\ panel = "Todo"
    /\ \E w \in Widths :
        LET h == frame_head(layouts, w)
            st == item_loop(LoopState(todos, todo_curr, editing, editing_cursor,
                                      key_current, h.layouts, h.panic), 0, w \div 2)
        IN  IF st.panic # "" THEN Abort(st.panic)
            ELSE /\ x' = w
                 /\ todos' = st.list
                 /\ editing' = st.editing
                 /\ editing_cursor' = st.editing_cursor
                 /\ key_current' = st.key
                 /\ layouts' = st.layouts
                 /\ pc' = "todoCmd"
                 /\ UNCHANGED <<todo_curr, dones, done_curr, panel, envVars,
                                notification, quit, panic>>

\* the todo panel's key dispatch, lines 423-442
TodoCmd ==
    /\ pc = "todoCmd"
    /\ IF key_current = None
       THEN UNCHANGED <<listVars, panel, notification, key_current>>
       ELSE LET r == todo_command(key_current[1], todos, todo_curr, dones, panel,
                                  notification)
            IN  /\ todos' = r.todos
                /\ todo_curr' = r.todo_curr
                /\ dones' = r.dones
                /\ panel' = r.panel
                /\ notification' = r.notification
                /\ key_current' = r.key
                /\ UNCHANGED done_curr
    /\ pc' = "todoEnd"
    /\ UNCHANGED <<editing, editing_cursor, envVars, quit, layouts, x, panic>>

\* the frame up to the end of the todo column when the todo panel is
\* inactive, lines 384-400 and 444-447
TodoInactive ==
    /\ pc = "begin"
    /\ panel # "Todo"
    /\ \E w \in Widths :
        LET r == label_loop(frame_head(layouts, w), Len(todos), w \div 2)
        IN  IF r.panic # "" THEN Abort(r.panic)
            ELSE /\ x' = w
                 /\ layouts' = r.layouts
                 /\ pc' = "todoEnd"
                 /\ UNCHANGED <<listVars, modeVars, envVars, notification, quit,
                                key_current, panic>>

\* from the end of the todo column to the end of the done item loop when the
\* done panel is active, lines 450-475
DoneItems ==
    /\ pc = "todoEnd"
    /\ panel = "Done"
    /\ LET h == column_break(layouts, x)
           st == item_loop(LoopState(dones, done_curr, editing, editing_cursor,
                                     key_current, h.layouts, h.panic), 0, x \div 2)
       IN  IF st.panic # "" THEN Abort(st.panic)
           ELSE /\ dones' = st.list
                /\ editing' = st.editing
                /\ editing_cursor' = st.editing_cursor
                /\ key_current' = st.key
                /\ layouts' = st.layouts
                /\ pc' = "doneCmd"
                /\ UNCHANGED <<done_curr, todos, todo_curr, panel, envVars,
                               notification, quit, x, panic>>

\* the done panel's key dispatch, lines 477-500
DoneCmd ==
    /\ pc = "doneCmd"
    /\ IF key_current = None
       THEN UNCHANGED <<listVars, panel, notification, key_current>>
       ELSE LET r == done_command(key_current[1], dones, done_curr, todos, panel,
                                  notification)
            IN  /\ dones' = r.dones
                /\ done_curr' = r.done_curr
                /\ todos' = r.todos
                /\ panel' = r.panel
                /\ notification' = r.notification
                /\ key_current' = r.key
                /\ UNCHANGED todo_curr
    /\ pc' = "doneEnd"
    /\ UNCHANGED <<editing, editing_cursor, envVars, quit, layouts, x, panic>>

\* from the end of the todo column to the end of the done column's labels when
\* the done panel is inactive, lines 450-454 and 502-505
DoneInactive ==
    /\ pc = "todoEnd"
    /\ panel # "Done"
    /\ UiStep(label_loop(column_break(layouts, x), Len(dones), x \div 2), "doneEnd")

\* end of the done column, line 508
DoneEnd ==
    /\ pc = "doneEnd"
    /\ UiStep(ui_end_layout(layouts), "horzEnd")

\* end of the row of columns, line 510
HorzEnd ==
    /\ pc = "horzEnd"
    /\ UiStep(ui_end_layout(layouts), "end")

\* ui.end(), line 512
End ==
    /\ pc = "end"
    /\ UiStep(ui_end(layouts), "quit")

\* the quit handler reading the pending key without taking it
QuitCheck_peeks ==
    /\ pc = "quit"
    /\ quit' = IF key_current # None /\ as_u8(key_current[1]) = CH_q THEN TRUE ELSE quit
    /\ key_current' = IF key_current # None /\ as_u8(key_current[1]) = CH_q
                      THEN None ELSE key_current
    /\ pc' = "getch"
    /\ UNCHANGED <<listVars, modeVars, envVars, notification, layouts, x, panic>>

\* the quit handler, lines 514-516
QuitCheck ==
    /\ pc = "quit"
    /\ quit' = IF key_current # None /\ as_u8(key_current[1]) = CH_q THEN TRUE ELSE quit
    /\ key_current' = None
    /\ pc' = "getch"
    /\ UNCHANGED <<listVars, modeVars, envVars, notification, layouts, x, panic>>

\* the item the edit widget is on, if any
Focused ==
    IF panel = "Todo"
    THEN IF todo_curr < Len(todos) THEN <<todos[todo_curr + 1]>> ELSE None
    ELSE IF done_curr < Len(dones) THEN <<dones[done_curr + 1]>> ELSE None

\* the keys the user is taken to press in the current state
KeyOffered(key) ==
    (editing /\ IsPrintable(key)) =>
        /\ key \in TypedKeys
        /\ Focused # None => Len(Focused[1]) < MaxLen

\* getch() returns a key and the notification is left as it is
Getch_keeps_notification ==
    /\ pc = "getch"
    /\ \E key \in Keys :
        /\ KeyOffered(key)
        /\ key_current' = Some(key)
    /\ x' = 0
    /\ pc' = "cond"
    /\ UNCHANGED <<listVars, modeVars, envVars, notification, quit, layouts, panic>>

\* getch() returns a key, lines 520-524
Getch ==
    /\ pc = "getch"
    /\ \E key \in Keys :
        /\ KeyOffered(key)
        /\ notification' = <<>>
        /\ key_current' = Some(key)
    /\ x' = 0
    /\ pc' = "cond"
    /\ UNCHANGED <<listVars, modeVars, envVars, quit, layouts, panic>>

\* getch() times out and returns ERR, lines 520-521
GetchErr ==
    /\ pc = "getch"
    /\ x' = 0
    /\ pc' = "cond"
    /\ UNCHANGED <<listVars, modeVars, envVars, notification, quit, layouts,
                   key_current, panic>>

\* save_state after the loop, lines 527-530
Save ==
    /\ pc = "save"
    /\ written' = Some(save_state(todos, dones))
    /\ saves' = saves + 1
    /\ pc' = "exit"
    /\ UNCHANGED <<listVars, modeVars, CTRLC, notification, quit, layouts,
                   key_current, x, panic>>

LoopPcs == {"cond", "begin", "todoCmd", "todoEnd", "doneCmd", "doneEnd",
            "horzEnd", "end", "quit", "getch", "save"}

\* SIGINT is delivered and callback() runs, ctrlc.rs lines 14-16
Signal ==
    /\ pc \in LoopPcs
    /\ CTRLC' = TRUE
    /\ UNCHANGED <<listVars, modeVars, written, saves, notification, quit, layouts,
                   key_current, x, panic, pc>>

Next ==
    \/ Cond
    \/ TodoItems
    \/ TodoCmd
    \/ TodoInactive
    \/ DoneItems
    \/ DoneCmd
    \/ DoneInactive
    \/ DoneEnd
    \/ HorzEnd
    \/ End
    \/ QuitCheck
    \/ Getch
    \/ GetchErr
    \/ Save
    \/ Signal

Spec == Init /\ [][Next]_vars

----------------------------------------------------------------------------
(* The Ui calls in any order: Ui as a caller may drive it, lines 88-211.   *)
(* Only layouts, panic and pc change.                                      *)

LayoutKinds == {"Vert", "Horz"}

InitUi ==
    /\ todos = <<>>
    /\ todo_curr = 0
    /\ dones = <<>>
    /\ done_curr = 0
    /\ notification = <<>>
    /\ quit = FALSE
    /\ panel = "Todo"
    /\ editing = FALSE
    /\ editing_cursor = 0
    /\ layouts = <<>>
    /\ key_current = None
    /\ x = 0
    /\ CTRLC = FALSE
    /\ written = None
    /\ saves = 0
    /\ panic = ""
    /\ pc = "ui"

\* the call named call returns with result r; pc names the last call made
UiCall(call, r) ==
    /\ layouts' = r.layouts
    /\ panic' = r.panic
    /\ pc' = call
    /\ UNCHANGED <<listVars, modeVars, envVars, notification, quit, key_current, x>>

UiPcs == {"ui", "begin", "begin_layout", "end_layout", "label_fixed_width", "end"}

\* the caller is alive and free to make its next call
UiReady == pc \in UiPcs /\ panic = ""

\* the accumulated size of the top layout is within the explored range
TopSmall ==
    IF layouts = <<>> THEN TRUE
    ELSE Last(layouts).size.x <= MaxWidth /\ Last(layouts).size.y <= MaxWidth

CallBegin ==
    /\ UiReady
    /\ \E kind \in LayoutKinds : UiCall("begin", ui_begin(layouts, Vec2(0, 0), kind))

CallBeginLayout ==
    /\ UiReady
    /\ Len(layouts) < MaxDepth
    /\ \E kind \in LayoutKinds : UiCall("begin_layout", ui_begin_layout(layouts, kind))

CallEndLayout ==
    /\ UiReady
    /\ IF Len(layouts) < 2 THEN TRUE
       ELSE /\ layouts[Len(layouts) - 1].size.x <= MaxWidth
            /\ layouts[Len(layouts) - 1].size.y <= MaxWidth
    /\ UiCall("end_layout", ui_end_layout(layouts))

CallLabel ==
    /\ UiReady
    /\ TopSmall
    /\ \E width \in 0..MaxWidth :
        UiCall("label_fixed_width", ui_label_fixed_width(layouts, width))

CallEnd ==
    /\ UiReady
    /\ UiCall("end", ui_end(layouts))

NextUi ==
    \/ CallBegin
    \/ CallBeginLayout
    \/ CallEndLayout
    \/ CallLabel
    \/ CallEnd

SpecUi == InitUi /\ [][NextUi]_vars

----------------------------------------------------------------------------
(* Ui::edit_field on its own, lines 139-199: any buffer a String can hold, *)
(* any cursor, any key.  The buffer is todos[1], the cursor editing_cursor *)
(* and the key key_current, as in the call of line 405.                    *)

\* the valid UTF-8 strings of "q" and "é" up to n bytes
RECURSIVE Texts(_)
Texts(n) ==
    IF n = 0 THEN {<<>>}
    ELSE LET shorter == Texts(n - 1)
         IN  shorter
             \cup {t \o <<CH_q>> : t \in {u \in shorter : Len(u) + 1 <= n}}
             \cup {t \o <<UTF8_LEAD, UTF8_CONT>> : t \in {u \in shorter : Len(u) + 2 <= n}}

InitEdit ==
    /\ todos \in {<<t>> : t \in Texts(MaxLen)}
    /\ todo_curr = 0
    /\ dones = <<>>
    /\ done_curr = 0
    /\ notification = <<>>
    /\ quit = FALSE
    /\ panel = "Todo"
    /\ editing = TRUE
    /\ editing_cursor \in 0..(MaxLen + 1)
    /\ layouts = <<>>
    /\ key_current \in {Some(key) : key \in Keys}
    /\ x = 0
    /\ CTRLC = FALSE
    /\ written = None
    /\ saves = 0
    /\ panic = ""
    /\ pc = "edit"

\* one call of edit_field inside a fresh root layout
CallEditField ==
    /\ pc = "edit"
    /\ \E w \in Widths :
        LET r == edit_field(ui_begin(<<>>, Vec2(0, 0), "Vert").layouts, todos[1],
                            editing_cursor, key_current, w \div 2)
        IN  /\ todos' = <<r.buffer>>
            /\ editing_cursor' = r.cursor
            /\ key_current' = r.key
            /\ panic' = r.panic
            /\ pc' = IF r.panic # "" THEN "aborted" ELSE "edited"
    /\ UNCHANGED <<todo_curr, dones, done_curr, panel, editing, envVars,
                   notification, quit, layouts, x>>

\* the caller supplies the next key
FeedKey ==
    /\ pc = "edited"
    /\ \E key \in Keys :
        /\ IsPrintable(key) => Len(todos[1]) < MaxLen
        /\ key_current' = Some(key)
    /\ pc' = "edit"
    /\ UNCHANGED <<listVars, modeVars, envVars, notification, quit, layouts, x, panic>>

NextEdit ==
    \/ CallEditField
    \/ FeedKey

SpecEdit == InitEdit /\ [][NextEdit]_vars

----------------------------------------------------------------------------
(* The list functions on their own, lines 238-296, called in any order on  *)
(* two lists as main() calls them on todos and dones.  written holds the   *)
(* lists and cursors as they were before the calls that notification       *)
(* names.                                                                  *)

\* the longest pair of lists and the longest run of calls explored
MaxList == 3
MaxOps == 3

ListItems == {<<CH_q>>, <<CH_r>>, <<CH_d>>}

Snapshot(td, td_curr, dn, dn_curr) ==
    [todos |-> td, todo_curr |-> td_curr, dones |-> dn, done_curr |-> dn_curr]

\* the cursors a list can have: 0 when it is empty, else a valid index
Cursors(list) == IF list = <<>> THEN {0} ELSE 0..(Len(list) - 1)

InitList ==
    /\ todos \in BoundedSeq(ListItems, MaxList)
    /\ dones \in BoundedSeq(ListItems, MaxList - Len(todos))
    /\ todo_curr \in Cursors(todos)
    /\ done_curr \in Cursors(dones)
    /\ written = Some(Snapshot(todos, todo_curr, dones, done_curr))
    /\ notification = <<>>
    /\ quit = FALSE
    /\ panel = "Todo"
    /\ editing = FALSE
    /\ editing_cursor = 0
    /\ layouts = <<>>
    /\ key_current = None
    /\ x = 0
    /\ CTRLC = FALSE
    /\ saves = 0
    /\ panic = ""
    /\ pc = "list"

\* the call named call has returned, leaving td, td_curr, dn, dn_curr
ListCall(call, td, td_curr, dn, dn_curr) ==
    /\ pc = "list"
    /\ Len(notification) < MaxOps
    /\ todos' = td
    /\ todo_curr' = td_curr
    /\ dones' = dn
    /\ done_curr' = dn_curr
    /\ notification' = Append(notification, call)
    /\ UNCHANGED <<modeVars, written, CTRLC, saves, quit, layouts, key_current, x,
                   panic, pc>>

\* list_drag_up(&mut todos, &mut todo_curr), line 425
CallDragUp ==
    LET r == list_drag_up(todos, todo_curr)
    IN  ListCall("list_drag_up", r.list, r.curr, dones, done_curr)

\* list_drag_down(&mut todos, &mut todo_curr), line 426
CallDragDown ==
    LET r == list_drag_down(todos, todo_curr)
    IN  ListCall("list_drag_down", r.list, r.curr, dones, done_curr)

\* list_transfer(&mut dones, &mut todos, &mut todo_curr), line 432
CallTransfer ==
    LET r == list_transfer(dones, todos, todo_curr)
    IN  ListCall("list_transfer", r.src, r.curr, r.dst, done_curr)

\* list_last(&dones, &mut done_curr), line 484
CallLast ==
    LET r == list_last(dones, done_curr)
    IN  ListCall("list_last", todos, todo_curr, r.list, r.curr)

\* list_transfer(&mut todos, &mut dones, &mut done_curr), line 490
CallTransferBack ==
    LET r == list_transfer(todos, dones, done_curr)
    IN  ListCall("list_transfer_back", r.dst, todo_curr, r.src, r.curr)

\* a new run of calls starts from the lists as they are
Remember ==
    /\ pc = "list"
    /\ notification # <<>>
    /\ written' = Some(Snapshot(todos, todo_curr, dones, done_curr))
    /\ notification' = <<>>
    /\ UNCHANGED <<listVars, modeVars, CTRLC, saves, quit, layouts, key_current, x,
                   panic, pc>>

NextList ==
    \/ CallDragUp
    \/ CallDragDown
    \/ CallTransfer
    \/ CallLast
    \/ CallTransferBack
    \/ Remember

SpecList == InitList /\ [][NextList]_vars

----------------------------------------------------------------------------
(* Ui::edit_field fed printable keys and then Backspace keys, starting     *)
(* with the cursor at the end of the buffer as the rename of line 414      *)
(* leaves it.  written holds the buffer and cursor as they were before the *)
(* keys that notification names.                                           *)

\* the longest run of printable keys explored
MaxTyped == 3

PrintableKeys == {CH_q, CH_G}

InitType ==
    /\ todos \in {<<t>> : t \in Texts(MaxLen)}
    /\ todo_curr = 0
    /\ dones = <<>>
    /\ done_curr = 0
    /\ notification = <<>>
    /\ quit = FALSE
    /\ panel = "Todo"
    /\ editing = TRUE
    /\ editing_cursor = Len(todos[1])
    /\ layouts = <<>>
    /\ key_current = None
    /\ x = 0
    /\ CTRLC = FALSE
    /\ written = Some([buffer |-> todos[1], cursor |-> editing_cursor])
    /\ saves = 0
    /\ panic = ""
    /\ pc = "type"

\* how many of the keys fed so far satisfy Test
Count(keys, Test(_)) == Cardinality({n \in 1..Len(keys) : Test(keys[n])})

IsBackspace(key) == key = KEY_BACKSPACE

\* getch() returns key and the next frame calls edit_field with it
EditWith(key) ==
    /\ pc = "type"
    /\ \E w \in Widths :
        LET r == edit_field(ui_begin(<<>>, Vec2(0, 0), "Vert").layouts, todos[1],
                            editing_cursor, Some(key), w \div 2)
        IN  /\ todos' = <<r.buffer>>
            /\ editing_cursor' = r.cursor
            /\ key_current' = r.key
            /\ panic' = r.panic
            /\ pc' = IF r.panic # "" THEN "aborted" ELSE "type"
    /\ notification' = Append(notification, key)
    /\ UNCHANGED <<todo_curr, dones, done_curr, panel, editing, envVars, quit,
                   layouts, x>>

\* one more printable key, before any Backspace
TypePrintable ==
    /\ Len(notification) < MaxTyped
    /\ Count(notification, IsBackspace) = 0
    /\ \E key \in PrintableKeys : EditWith(key)

\* one more Backspace, while there are fewer than printable keys
TypeBackspace ==
    /\ Count(notification, IsBackspace) < Count(notification, IsPrintable)
    /\ EditWith(KEY_BACKSPACE)

NextType ==
    \/ TypePrintable
    \/ TypeBackspace

SpecType == InitType /\ [][NextType]_vars

----------------------------------------------------------------------------
(* save_state and load_state on the bytes of the file, lines 298-321:      *)
(* writeln! ends every item with a newline and BufRead::lines splits the   *)
(* file at newlines.  written holds the bytes of the file.                 *)

CH_CR == 13

\* the bytes writeln! writes for the lines from index on, lines 315-320
RECURSIVE writeln(_, _)
writeln(file_lines, index) ==
    IF index > Len(file_lines) THEN <<>>
    ELSE file_lines[index] \o <<CH_NL>> \o writeln(file_lines, index + 1)

\* BufRead::lines from byte start on: each line up to its newline, without
\* the newline and without one carriage return before it
RECURSIVE lines(_, _)
lines(bytes, start) ==
    IF start > Len(bytes) THEN <<>>
    ELSE LET ends == {k \in start..Len(bytes) : bytes[k] = CH_NL}
         IN  IF ends = {} THEN <<SubSeq(bytes, start, Len(bytes))>>
             ELSE LET nl == CHOOSE k \in ends : \A j \in ends : k <= j
                      raw == SubSeq(bytes, start, nl - 1)
                      line == IF raw # <<>> /\ Last(raw) = CH_CR THEN Front(raw)
                              ELSE raw
                  IN  <<line>> \o lines(bytes, nl + 1)

\* the titles a line of the file can carry
FileTexts == BoundedSeq({CH_q, CH_CR}, MaxLen)

\* the files of at most MaxItems well-formed lines, each ended by a newline
FileBytes ==
    {writeln(f, 1) :
        f \in BoundedSeq({TODO_PREFIX \o t : t \in FileTexts}
                             \cup {DONE_PREFIX \o t : t \in FileTexts}, MaxItems)}

InitFile ==
    /\ written \in {Some(bytes) : bytes \in FileBytes}
    /\ todos = <<>>
    /\ todo_curr = 0
    /\ dones = <<>>
    /\ done_curr = 0
    /\ notification = <<>>
    /\ quit = FALSE
    /\ panel = "Todo"
    /\ editing = FALSE
    /\ editing_cursor = 0
    /\ layouts = <<>>
    /\ key_current = None
    /\ x = 0
    /\ CTRLC = FALSE
    /\ saves = 0
    /\ panic = ""
    /\ pc = "start"

\* load_state into empty lists, lines 353-364, leaving the process at next
LoadInto(next) ==
    LET r == load_state(<<>>, <<>>, lines(written[1], 1))
    IN  /\ todos' = r.todos
        /\ dones' = r.dones
        /\ pc' = IF r.ok THEN next ELSE "exit"
        /\ UNCHANGED <<todo_curr, done_curr, modeVars, envVars, notification, quit,
                       layouts, key_current, x, panic>>

\* the program starts and loads the file
Load ==
    /\ pc = "start"
    /\ LoadInto("loaded")

\* the program ends and saves the lists it holds, lines 527-530
SaveFile ==
    /\ pc = "loaded"
    /\ written' = Some(writeln(save_state(todos, dones), 1))
    /\ saves' = saves + 1
    /\ pc' = "saved"
    /\ UNCHANGED <<listVars, modeVars, CTRLC, notification, quit, layouts,
                   key_current, x, panic>>

\* the program starts again on the file it saved
Reload ==
    /\ pc = "saved"
    /\ LoadInto("reloaded")

NextFile ==
    \/ Load
    \/ SaveFile
    \/ Reload

SpecFile == InitFile /\ [][NextFile]_vars

----------------------------------------------------------------------------
(* Claims *)

\* a cursor is 0 on an empty list and a valid index otherwise
CursorOk(list, curr) ==
    IF list = <<>> THEN curr = 0 ELSE curr >= 0 /\ curr < Len(list)

\* C1: in every state the main loop reaches, each of the two lists has its
\* cursor at 0 when it is empty and at a valid index (0 <= cursor < len)
\* otherwise.
C1_CursorInvariant ==
    /\ CursorOk(todos, todo_curr)
    /\ CursorOk(dones, done_curr)

\* C1 witness: a transfer out of the todo list has just run and left one item
\* behind (the list held two), with both cursors in range.
C1_Witness ==
    /\ pc = "todoEnd"
    /\ notification = <<"DONE!">>
    /\ Len(todos) = 1
    /\ Len(dones) = 1
    /\ todo_curr = 0

\* the list without its element at 0-based index i, order kept
Without(list, i) ==
    [k \in 1..(Len(list) - 1) |-> IF k <= i THEN list[k] ELSE list[k + 1]]

\* what the claims say of the cursor after the element at i was removed
Reclamped(i, rest) == IF rest # <<>> /\ i = Len(rest) THEN Len(rest) - 1 ELSE i

\* the transfer claimed by C2, from (src, curr) to (dst, dcurr)
TransferPost(src, curr, dst, dcurr, src2, curr2, dst2, dcurr2) ==
    IF curr < Len(src)
    THEN /\ src2 = Without(src, curr)
         /\ Len(dst2) = Len(dst) + 1
         /\ SubSeq(dst2, 1, Len(dst)) = dst
         /\ dst2[Len(dst2)] = src[curr + 1]
         /\ dcurr2 = dcurr
         /\ curr2 = Reclamped(curr, src2)
         /\ src2 = <<>> => curr2 = 0
    ELSE /\ src2 = src
         /\ curr2 = curr
         /\ dst2 = dst
         /\ dcurr2 = dcurr

TodoCmdStep == pc = "todoCmd" /\ pc' = "todoEnd"
DoneCmdStep == pc = "doneCmd" /\ pc' = "doneEnd"
KeyIs(c) == key_current # None /\ as_u8(key_current[1]) = c

C4_PreconditionFailuresRaise ==
    [][ /\ (pc' = "begin" /\ layouts # <<>>) => panic' = "InvalidState"
        /\ (pc' = "begin_layout" /\ layouts = <<>>) => panic' = "InvalidState"
        /\ (pc' = "label_fixed_width" /\ layouts = <<>>) => panic' = "InvalidState"
        /\ (pc' = "end_layout" /\ Len(layouts) < 2) => panic' = "InvalidState"
        /\ (pc' = "end" /\ Len(layouts) # 1) => panic' = "InvalidState" ]_vars

\* C4, the part the code keeps: everything above but end() on a stack of two
\* or more layouts, which pops the top layout and returns.
C4_RaisedByTheCode ==
    [][ /\ (pc' = "begin" /\ layouts # <<>>) => panic' = "InvalidState"
        /\ (pc' = "begin_layout" /\ layouts = <<>>) => panic' = "InvalidState"
        /\ (pc' = "label_fixed_width" /\ layouts = <<>>) => panic' = "InvalidState"
        /\ (pc' = "end_layout" /\ Len(layouts) < 2) => panic' = "InvalidState"
        /\ (pc' = "end" /\ layouts = <<>>) => panic' = "InvalidState"
        /\ (pc' = "end" /\ Len(layouts) >= 2) =>
               (panic' = "" /\ layouts' = Front(layouts)) ]_vars

\* C5: in every iteration of the main loop the stack is empty where begin is
\* called and after end, holds the root, the row and a column wherever a
\* panel places its widgets or a column ends, holds two layouts where the
\* row ends and exactly the root where end is called; no Ui call of the loop
\* aborts with InvalidState.
C5_FrameBalanced ==
    /\ panic # "InvalidState"
    /\ pc \in {"cond", "begin", "quit", "getch", "save", "exit"} => layouts = <<>>
    /\ pc \in {"todoCmd", "todoEnd", "doneCmd", "doneEnd"} => Len(layouts) = 3
    /\ pc = "horzEnd" => Len(layouts) = 2
    /\ pc = "end" => Len(layouts) = 1

\* C5 witness: ui.end() is about to be called in a frame that ran the edit
\* widget in the done panel.
C5_Witness ==
    /\ pc = "end"
    /\ panel = "Done"
    /\ editing
    /\ Len(layouts) = 1
    /\ layouts[1].size.y = 3 + Max(Len(todos), Len(dones))

ItemStepTodo == pc = "begin" /\ pc' = "todoCmd"
ItemStepDone == pc = "todoEnd" /\ pc' = "doneCmd"
ItemStep == ItemStepTodo \/ ItemStepDone
QuitStep == pc = "quit" /\ pc' = "getch"

EditKeyCodes == {KEY_LEFT, KEY_RIGHT, KEY_BACKSPACE, KEY_DC}
TodoCommandChars == {CH_K, CH_J, CH_k, CH_j, CH_g, CH_G, CH_NL, CH_TAB}
DoneCommandChars == TodoCommandChars \cup {CH_d}

\* the item loop has a handler that recognises the pending key: the edit
\* widget or the commit test when editing, the rename test otherwise
ItemRecognises ==
    /\ Focused # None
    /\ IF editing
       THEN \/ IsPrintable(key_current[1])
            \/ key_current[1] \in EditKeyCodes
            \/ as_u8(key_current[1]) = CH_NL
       ELSE as_u8(key_current[1]) = CH_r

\* what C6 and its amendment share: a handler that recognises the key consumes
\* it, the command matches hand an unknown key on, the quit handler is last
\* and quits on 'q' alone
DispatchChain ==
    /\ (ItemStep /\ key_current # None /\ ItemRecognises) => key_current' = None
    /\ (TodoCmdStep /\ key_current # None) =>
           key_current' = IF as_u8(key_current[1]) \in TodoCommandChars
                          THEN None ELSE key_current
    /\ (DoneCmdStep /\ key_current # None) =>
           key_current' = IF as_u8(key_current[1]) \in DoneCommandChars
                          THEN None ELSE key_current
    /\ QuitStep => /\ key_current' = None
                   /\ quit' = (quit \/ KeyIs(CH_q))

\* C6 as stated: a key no handler of the item loop recognises stays pending
\* for the list commands, the panel toggle and quit, in Editing mode too.
C6_Redispatch ==
    [][ /\ DispatchChain
        /\ (ItemStep /\ key_current # None /\ ~ItemRecognises) =>
               key_current' = key_current ]_vars

\* C6 amended: a key no handler of the item loop recognises stays pending for
\* the later handlers in Normal mode; in Editing mode the commit test takes
\* the key the edit widget handed back, so a key that is not the commit key
\* is discarded and reaches no later handler.
C6_RedispatchNormalOnly ==
    [][ /\ DispatchChain
        /\ (ItemStep /\ key_current # None /\ ~ItemRecognises) =>
               key_current' = IF editing /\ Focused # None THEN None
                              ELSE key_current ]_vars

\* C6 witness: Editing mode, Tab pending as the frame is about to run the
\* edit widget on the focused item.
C6_Witness ==
    /\ pc = "begin"
    /\ panel = "Todo"
    /\ editing
    /\ Focused # None
    /\ key_current = Some(CH_TAB)

\* C7 as stated: the mode goes Normal -> Editing exactly when the key 'r' is
\* dispatched in Normal mode with a focused item, the edit cursor then being
\* the length of its text; it goes Editing -> Normal exactly when the key
\* dispatched is Enter.
C7_ModeTransitions ==
    [][ /\ (~editing /\ editing') =>
               /\ ItemStep
               /\ key_current = Some(CH_r)
               /\ Focused # None
        /\ (ItemStep /\ ~editing /\ key_current = Some(CH_r) /\ Focused # None) =>
               /\ editing'
               /\ editing_cursor' = Len(Focused[1])
        /\ (editing /\ ~editing') =>
               /\ ItemStep
               /\ key_current = Some(CH_NL)
        /\ (ItemStep /\ editing /\ key_current = Some(CH_NL)) => ~editing' ]_vars

\* C7 as the code has it: the keys are compared after truncation to 8 bits.
C7_ModeTransitionsByLowByte ==
    [][ /\ (~editing /\ editing') =>
               /\ ItemStep
               /\ KeyIs(CH_r)
               /\ Focused # None
        /\ (ItemStep /\ ~editing /\ KeyIs(CH_r) /\ Focused # None) =>
               /\ editing'
               /\ editing_cursor' = Len(Focused[1])
        /\ (editing /\ ~editing') =>
               /\ ItemStep
               /\ KeyIs(CH_NL)
        /\ (ItemStep /\ editing /\ KeyIs(CH_NL)) => ~editing' ]_vars

\* the first and last byte (0-based, last exclusive) of the character that
\* covers byte i of s
CharStart(s, i) == CHOOSE j \in 0..i : is_char_boundary(s, j)
                       /\ \A m \in (j + 1)..i : ~is_char_boundary(s, m)
CharEnd(s, i) == CHOOSE j \in (i + 1)..Len(s) : is_char_boundary(s, j)
                     /\ \A m \in (i + 1)..(j - 1) : ~is_char_boundary(s, m)

\* s without the character at byte i
WithoutChar(s, i) == SubSeq(s, 1, CharStart(s, i)) \o SubSeq(s, CharEnd(s, i) + 1, Len(s))

\* what C8 says one call of the widget does to (buf, cur) on key k
EditPost(buf, cur, k, buf2, cur2, key2) ==
    LET c == IF cur > Len(buf) THEN Len(buf) ELSE cur
    IN  IF IsPrintable(k) THEN
            /\ buf2 = SubSeq(buf, 1, c) \o <<k>> \o SubSeq(buf, c + 1, Len(buf))
            /\ cur2 = c + 1
            /\ key2 = None
        ELSE IF k = KEY_LEFT THEN
            /\ buf2 = buf
            /\ cur2 = IF c = 0 THEN 0 ELSE c - 1
            /\ key2 = None
        ELSE IF k = KEY_RIGHT THEN
            /\ buf2 = buf
            /\ cur2 = IF c = Len(buf) THEN c ELSE c + 1
            /\ key2 = None
        ELSE IF k = KEY_BACKSPACE THEN
            /\ buf2 = IF c > 0 THEN WithoutChar(buf, c - 1) ELSE buf
            /\ cur2 = IF c > 0 THEN c - 1 ELSE c
            /\ key2 = None
        ELSE IF k = KEY_DC THEN
            /\ buf2 = IF c < Len(buf) THEN WithoutChar(buf, c) ELSE buf
            /\ cur2 = c
            /\ key2 = None
        ELSE
            /\ buf2 = buf
            /\ cur2 = c
            /\ key2 = Some(k)

EditCallStep == pc = "edit" /\ pc' # "edit"

IsAscii(s) == \A i \in 1..Len(s) : s[i] < 128

\* C8: for every buffer, cursor and key one call of the edit widget returns
\* with the buffer, cursor and pending key the key's rule gives.
C8_EditKeys ==
    [][ EditCallStep =>
            /\ panic' = ""
            /\ EditPost(todos[1], editing_cursor, key_current[1],
                        todos'[1], editing_cursor', key_current') ]_vars

\* C8 on the buffers of one-byte characters, where the code keeps it.
C8_EditKeysOnAscii ==
    [][ (EditCallStep /\ IsAscii(todos[1])) =>
            /\ panic' = ""
            /\ EditPost(todos[1], editing_cursor, key_current[1],
                        todos'[1], editing_cursor', key_current') ]_vars

\* C9: no call of the edit widget aborts the process, and after each the
\* cursor is within [0, len(buffer)] in bytes.
C9_EditTotal ==
    /\ panic # "CharBoundary"
    /\ (pc \in {"todoCmd", "doneCmd"} /\ editing /\ Focused # None) =>
           editing_cursor <= Len(Focused[1])

\* the lines save_state is to write for the lists in memory
ExpectedLines ==
    [i \in 1..(Len(todos) + Len(dones)) |->
        IF i <= Len(todos) THEN <<84, 79, 68, 79, 58, 32>> \o todos[i]
        ELSE <<68, 79, 78, 69, 58, 32>> \o dones[i - Len(todos)]]

\* C10: the loop condition clears the interrupt flag only by the poll that
\* ends the loop, so no store of the handler is lost; the loop ends at a
\* condition check exactly when quit or the flag is set; 'q' pending in
\* Normal mode reaches the quit handler and sets quit; and save_state runs
\* once, after the loop, on the lists in memory.
C10_InterruptAndQuitSave ==
    /\ [][ /\ (CTRLC /\ ~CTRLC') => (pc = "cond" /\ pc' = "save")
           /\ (pc = "cond" /\ pc' # "cond") =>
                  /\ pc' = (IF quit \/ CTRLC THEN "save" ELSE "begin")
                  /\ CTRLC' = (IF quit THEN CTRLC ELSE FALSE)
           /\ (~editing /\ key_current = Some(CH_q) /\ pc # pc') =>
                  IF pc = "quit" THEN quit' ELSE key_current' = key_current
           /\ (quit /\ pc # "exit") => quit'
           /\ pc = "save" => (pc' \in {"save", "exit"})
           /\ saves' # saves => (pc = "save" /\ pc' = "exit" /\ saves' = saves + 1
                                 /\ written' = Some(ExpectedLines)) ]_vars
    /\ [](quit => pc \in {"getch", "cond", "save", "exit"})
    /\ [](saves = (IF pc = "exit" THEN 1 ELSE 0))
    /\ [](pc = "exit" => written = Some(ExpectedLines))

\* C10 witness: the loop was interrupted while a key was pending, and the
\* lists were saved.
C10_Witness ==
    /\ pc = "exit"
    /\ ~quit
    /\ key_current # None
    /\ saves = 1
    /\ Len(todos) + Len(dones) = 2

\* C11: while a panel is active no step changes the other list's cursor, and
\* the other list's items change only by a transfer, which appends the item
\* under the active cursor; the panel changes only when Tab reaches the
\* active panel's commands, and that step changes no list, cursor or mode.
C11_ListIsolation ==
    [][ /\ panel = "Todo" =>
               /\ done_curr' = done_curr
               /\ \/ dones' = dones
                  \/ /\ TodoCmdStep /\ KeyIs(CH_NL) /\ todo_curr < Len(todos)
                     /\ dones' = Append(dones, todos[todo_curr + 1])
        /\ panel = "Done" =>
               /\ todo_curr' = todo_curr
               /\ \/ todos' = todos
                  \/ /\ DoneCmdStep /\ KeyIs(CH_NL) /\ done_curr < Len(dones)
                     /\ todos' = Append(todos, dones[done_curr + 1])
        /\ panel' # panel => (TodoCmdStep \/ DoneCmdStep) /\ KeyIs(CH_TAB)
        /\ ((TodoCmdStep \/ DoneCmdStep) /\ KeyIs(CH_TAB)) =>
               /\ panel' # panel
               /\ UNCHANGED <<listVars, editing, editing_cursor, quit, notification>> ]_vars

\* C11 witness: a transfer out of the todo panel has just appended an item to
\* a done list that already held a different one, its cursor still on the
\* first.
C11_Witness ==
    /\ pc = "todoEnd"
    /\ panel = "Todo"
    /\ notification = <<"DONE!">>
    /\ Len(dones) = 2
    /\ dones[1] # dones[2]
    /\ done_curr = 0

\* the lists and cursors before the calls that notification names
Before == written[1]

\* C12: at cursor 0 list_drag_up changes nothing and at the last index
\* list_drag_down changes nothing; elsewhere each swaps the item under the
\* cursor with its neighbour and moves the cursor onto the moved item; and
\* list_drag_up then list_drag_down from a cursor i > 0, or list_drag_down
\* then list_drag_up from a cursor i with i + 1 < len, restores the item
\* order and the cursor.
C12_DragInverse ==
    LET old == Before.todos
        i == Before.todo_curr
    IN  /\ notification = <<"list_drag_up">> =>
               IF i = 0 THEN todos = old /\ todo_curr = i
               ELSE /\ todos = [old EXCEPT ![i] = old[i + 1], ![i + 1] = old[i]]
                    /\ todo_curr = i - 1
        /\ notification = <<"list_drag_down">> =>
               IF i + 1 >= Len(old) THEN todos = old /\ todo_curr = i
               ELSE /\ todos = [old EXCEPT ![i + 1] = old[i + 2], ![i + 2] = old[i + 1]]
                    /\ todo_curr = i + 1
        /\ (notification = <<"list_drag_up", "list_drag_down">> /\ i > 0) =>
               todos = old /\ todo_curr = i
        /\ (notification = <<"list_drag_down", "list_drag_up">> /\ i + 1 < Len(old)) =>
               todos = old /\ todo_curr = i
        /\ notification \in {<<"list_drag_up">>, <<"list_drag_down">>,
                              <<"list_drag_up", "list_drag_down">>,
                              <<"list_drag_down", "list_drag_up">>} =>
               dones = Before.dones /\ done_curr = Before.done_curr

\* C12 witness: list_drag_up then list_drag_down have run from the middle of
\* a list of three different items, which is back in its order.
C12_Witness ==
    /\ pc = "list"
    /\ notification = <<"list_drag_up", "list_drag_down">>
    /\ Before.todo_curr = 1
    /\ Len(todos) = 3
    /\ todos[1] # todos[2]
    /\ todos[2] # todos[3]
    /\ todos = Before.todos
    /\ todo_curr = 1

\* C13: list_transfer of the item t under a valid cursor of todos into
\* dones, list_last on dones, and list_transfer back leave dones with its
\* original items in their order and todos with its original items, t moved
\* to the end.
C13_TransferRoundTrip ==
    LET old == Before.todos
        i == Before.todo_curr
    IN  (/\ notification = <<"list_transfer", "list_last", "list_transfer_back">>
         /\ i < Len(old)) =>
            /\ dones = Before.dones
            /\ todos = Append(Without(old, i), old[i + 1])

\* C13 witness: the round trip has run from the first of two different todo
\* items with a done item present, so the todo list is back reordered.
C13_Witness ==
    /\ pc = "list"
    /\ notification = <<"list_transfer", "list_last", "list_transfer_back">>
    /\ Len(Before.todos) = 2
    /\ Before.todo_curr = 0
    /\ Before.dones # <<>>
    /\ todos # Before.todos
    /\ dones = Before.dones

\* C14: from a buffer with the cursor at its end, k printable keys followed
\* by k Backspace keys leave the buffer with its original content and the
\* cursor at its original offset, and no call of the widget aborts.
C14_EditRoundTrip ==
    /\ pc # "aborted"
    /\ Count(notification, IsBackspace) = Count(notification, IsPrintable) =>
           /\ todos[1] = Before.buffer
           /\ editing_cursor = Before.cursor

\* C14 witness: two printable keys and two Backspace keys have been fed
\* after a two-byte character, which is back alone with the cursor after it.
C14_Witness ==
    /\ pc = "type"
    /\ Len(notification) = 4
    /\ Count(notification, IsBackspace) = 2
    /\ todos[1] = <<UTF8_LEAD, UTF8_CONT>>
    /\ editing_cursor = 2

\* what the notification line can read
Messages == {<<"Loaded file">>, <<>>, <<"DONE!">>, <<"No, not done yet...">>,
             <<"Into The Abyss!">>}

\* C15: every step in which getch returns a key empties the notification,
\* the notification is empty for as long as that key is pending, and in
\* every state it is the load message, empty, or exactly one feedback
\* message.
C15_NotificationCleared ==
    /\ [][ (pc = "getch" /\ key_current' # None) => notification' = <<>> ]_vars
    /\ [](key_current # None => notification = <<>>)
    /\ [](notification \in Messages)

\* C15 witness: the last item has just been deleted and the notification
\* reads the delete message alone, the load message having been cleared.
C15_Witness ==
    /\ pc = "doneEnd"
    /\ notification = <<"Into The Abyss!">>
    /\ todos = <<>>
    /\ dones = <<>>

\* C16 as stated: loading the file that save_state wrote reproduces the todo
\* list and the done list the program held, item for item.
C16_PersistenceRoundTrip ==
    [][ pc = "saved" => (pc' = "reloaded" /\ todos' = todos /\ dones' = dones) ]_vars

\* the title as it is read back: without a carriage return at its end
WithoutTrailingCR(t) == IF t # <<>> /\ Last(t) = CH_CR THEN Front(t) ELSE t

\* no title ends with a carriage return
NoTrailingCR(list) == \A n \in 1..Len(list) : list[n] = <<>> \/ Last(list[n]) # CH_CR

\* C16 as the code has it: the round trip is exact for the lists none of
\* whose titles ends with a carriage return, and otherwise each such title
\* comes back without it.
C16_RoundTripUpToTrailingCR ==
    [][ pc = "saved" =>
            /\ pc' = "reloaded"
            /\ todos' = [n \in 1..Len(todos) |-> WithoutTrailingCR(todos[n])]
            /\ dones' = [n \in 1..Len(dones) |-> WithoutTrailingCR(dones[n])]
            /\ (NoTrailingCR(todos) /\ NoTrailingCR(dones)) =>
                   (todos' = todos /\ dones' = dones) ]_vars

\* where the next widget of layout l goes: right of what a Horizontal layout
\* holds, below what a Vertical one holds
NextPos(l) ==
    IF l.kind = "Horz" THEN Vec2(l.pos.x + l.size.x, l.pos.y)
    ELSE Vec2(l.pos.x, l.pos.y + l.size.y)

\* the size of a layout of kind kind and size size with a widget of w by h
\* added: widths sum and heights max when Horizontal, the reverse when
\* Vertical
Grown(kind, size, w, h) ==
    IF kind = "Horz" THEN Vec2(size.x + w, Max(size.y, h))
    ELSE Vec2(Max(size.x, w), size.y + h)

\* the rules of C17 for one call on the stack as it is: begin_layout pushes
\* an empty layout at the top's next position, a label of width w grows the
\* top by (w, 1), end_layout grows the layout under the top by the top's size
GeometryRules ==
    /\ layouts # <<>> =>
           /\ \A kind \in LayoutKinds :
                  ui_begin_layout(layouts, kind).layouts =
                      Append(layouts, [kind |-> kind, pos |-> NextPos(Last(layouts)),
                                       size |-> Vec2(0, 0)])
           /\ \A w \in 0..x :
                  LET top == Last(layouts)
                  IN  ui_label_fixed_width(layouts, w).layouts =
                          Append(Front(layouts),
                                 [top EXCEPT !.size = Grown(top.kind, top.size, w, 1)])
    /\ Len(layouts) >= 2 =>
           LET top == Last(layouts)
               under == layouts[Len(layouts) - 1]
           IN  ui_end_layout(layouts).layouts =
                   Append(SubSeq(layouts, 1, Len(layouts) - 2),
                          [under EXCEPT !.size = Grown(under.kind, under.size,
                                                       top.size.x, top.size.y)])

\* the columns of the frame: the todo column starts at (0, 2) and the done
\* column at (x/2, 2), and the k-th item of a column (k from 0) goes on row
\* 3 + k
ColumnsPlaced ==
    /\ pc \in {"todoCmd", "todoEnd"} => layouts[3].pos = Vec2(0, 2)
    /\ pc \in {"doneCmd", "doneEnd"} => layouts[3].pos = Vec2(x \div 2, 2)
    /\ pc = "begin" =>
           \A w \in Widths : \A k \in 0..(Len(todos) - 1) :
               NextPos(Last(label_loop(frame_head(layouts, w), k, w \div 2).layouts))
                   = Vec2(0, 3 + k)
    /\ pc = "todoEnd" =>
           \A k \in 0..(Len(dones) - 1) :
               NextPos(Last(label_loop(column_break(layouts, x), k, x \div 2).layouts))
                   = Vec2(x \div 2, 3 + k)

\* C17 as stated: the geometry rules hold for every call, the columns are
\* placed as claimed, and when the frame reaches ui.end() the root has the
\* size (max(x, 2*(x/2)), 2 + 1 + max(n, m)) for the n todos and m dones.
C17_LayoutGeometry ==
    /\ GeometryRules
    /\ ColumnsPlaced
    /\ pc = "end" =>
           layouts[1].size = Vec2(Max(x, 2 * (x \div 2)),
                                  2 + 1 + Max(Len(todos), Len(dones)))

\* C17 amended: the same rules and placement, with n and m the numbers of
\* items drawn in the two columns of the frame: each column is as high as
\* its title and the list it draws, the row is as high as the higher
\* column, and the root ends two rows higher than the row.  The lists are
\* as drawn when ui.end() is reached unless a transfer or a delete has been
\* dispatched since the last key.
C17_LayoutGeometryAsDrawn ==
    /\ [](GeometryRules /\ ColumnsPlaced)
    /\ [][ /\ (pc = "begin" /\ pc' \in {"todoCmd", "todoEnd"}) =>
               /\ layouts'[3].size = Vec2(x' \div 2, 1 + Len(todos))
               /\ layouts'[2] = [kind |-> "Horz", pos |-> Vec2(0, 2), size |-> Vec2(0, 0)]
               /\ layouts'[1].size = Vec2(x', 2)
           /\ (pc = "todoEnd" /\ pc' \in {"doneCmd", "doneEnd"}) =>
               /\ layouts'[3].size = Vec2(x \div 2, 1 + Len(dones))
               /\ layouts'[2].size = layouts[3].size
           /\ (pc = "doneEnd" /\ pc' = "horzEnd") =>
               layouts'[2].size = Vec2(2 * (x \div 2),
                                       Max(layouts[2].size.y, layouts[3].size.y))
           /\ (pc = "horzEnd" /\ pc' = "end") =>
               layouts'[1].size = Vec2(Max(x, 2 * (x \div 2)), 2 + layouts[2].size.y) ]_vars
    /\ [](pc = "end" =>
              /\ layouts[1].size.x = Max(x, 2 * (x \div 2))
              /\ notification \in {<<>>, <<"Loaded file">>} =>
                     layouts[1].size.y = 3 + Max(Len(todos), Len(dones)))

\* C17 witness: ui.end() is about to be called in the frame that moved one of
\* two todo items to the empty done list; the root is five rows high, for
\* the two todo items and the one done item drawn.
C17_Witness ==
    /\ pc = "end"
    /\ notification = <<"DONE!">>
    /\ Len(todos) = 1
    /\ Len(dones) = 1
    /\ layouts[1].size = Vec2(5, 5)

\* C18 as stated: a command is triggered only by the key code of its
\* character: a pending key code that is not the code of one of a panel's
\* command characters changes no list, cursor or panel there, only the code
\* of 'r' starts an edit, only the code of Enter ends one, and only the code
\* of 'q' sets quit.
C18_KeyCodeIdentity ==
    [][ /\ (TodoCmdStep /\ key_current # None /\ key_current[1] \notin TodoCommandChars) =>
               UNCHANGED <<listVars, panel>>
        /\ (DoneCmdStep /\ key_current # None /\ key_current[1] \notin DoneCommandChars) =>
               UNCHANGED <<listVars, panel>>
        /\ (ItemStep /\ ~editing /\ key_current # Some(CH_r)) => ~editing'
        /\ (ItemStep /\ editing /\ key_current # Some(CH_NL)) => editing'
        /\ (QuitStep /\ key_current # Some(CH_q)) => quit' = quit ]_vars

\* C18 as the code has it: the same with every key code read by its low
\* byte, so that the codes equal modulo 256 trigger the same command.
C18_KeyCodeIdentityByLowByte ==
    [][ /\ (TodoCmdStep /\ key_current # None
                /\ as_u8(key_current[1]) \notin TodoCommandChars) =>
               UNCHANGED <<listVars, panel>>
        /\ (DoneCmdStep /\ key_current # None
                /\ as_u8(key_current[1]) \notin DoneCommandChars) =>
               UNCHANGED <<listVars, panel>>
        /\ (ItemStep /\ ~editing /\ ~KeyIs(CH_r)) => ~editing'
        /\ (ItemStep /\ editing /\ ~KeyIs(CH_NL)) => editing'
        /\ (QuitStep /\ ~KeyIs(CH_q)) => quit' = quit ]_vars

\* the 0-based index of the item the active panel has its cursor on
FocusedIndex == IF panel = "Todo" THEN todo_curr ELSE done_curr

\* list2 is list but for the text of the item at 0-based index i
SameButAt(list, list2, i) ==
    /\ Len(list2) = Len(list)
    /\ \A n \in 1..Len(list) : n # i + 1 => list2[n] = list[n]

C20_OneKeyOneAction ==
    /\ [](pc = "getch" => key_current = None)
    /\ [][ /\ (key_current' # None /\ key_current' # key_current) =>
                   (pc = "getch" /\ key_current = None)
           /\ ~UNCHANGED <<listVars, modeVars, quit>> =>
                   (key_current # None /\ key_current' = None)
           /\ ((TodoCmdStep \/ DoneCmdStep) /\ KeyIs(CH_TAB)) => key_current' = None ]_vars

\* C20 witness: getch is reached with the slot empty in a frame that
\* dispatched Enter to the todo panel, which moved one item and no more.
C20_Witness ==
    /\ pc = "getch"
    /\ key_current = None
    /\ panel = "Todo"
    /\ notification = <<"DONE!">>
    /\ Len(todos) = 1
    /\ Len(dones) = 1
    /\ todos[1] # dones[1]

====
